---- MODULE Spec2Model ----
(***************************************************************************)
(* redux-api-middleware: the middleware factory createApiMiddleware, the   *)
(* per-action interceptor apiMiddleware with its promise chain, and the    *)
(* action builder apiRequest.                                              *)
(*                                                                         *)
(* JavaScript values are string tokens; TypeOf gives the token's typeof,   *)
(* Truthy its truthiness, Member its property lookup.  Objects that are    *)
(* key/value bags (options, payloads, actions) are TLA+ functions whose    *)
(* DOMAIN is the set of own keys.                                          *)
(***************************************************************************)
EXTENDS Naturals, Sequences, FiniteSets, TLC

VARIABLES mw, built, reqs, loading

vars == <<mw, built, reqs, loading>>

(* ------------------------------------------------------------------ *)
(* The value universe                                                 *)
(* ------------------------------------------------------------------ *)
Undefined == "undefined"
Null == "null"
EmptyString == ""
TypeError == "TypeError"

FunctionTokens == {"requestFn", "successFn", "failureFn", "throwFn", "jsonResolves", "jsonRejects"}
ObjectTokens == {Null, "obj", "wrapOK", "wrapBad", "objNoFn"}
NumberTokens == {"num42"}

TypeOf(v) ==
  CASE v = Undefined -> "undefined"
    [] v \in FunctionTokens -> "function"
    [] v \in ObjectTokens -> "object"
    [] v \in NumberTokens -> "number"
    [] OTHER -> "string"

Truthy(v) == v \notin {Undefined, Null, EmptyString}

EmptyMap == [k \in {} |-> Undefined]

Get(o, k) == IF k \in DOMAIN o THEN o[k] ELSE Undefined

Assign(a, b) ==
  [k \in (DOMAIN a) \cup (DOMAIN b) |-> IF k \in DOMAIN b THEN b[k] ELSE a[k]]

Rest(o, taken) == [k \in (DOMAIN o) \ taken |-> o[k]]

(* isString that takes every defined value for a string *)
isString_defined(str) == TypeOf(str) # "undefined"

isString(str) == TypeOf(str) = "string"

isFunction(func) == TypeOf(func) = "function"

(* logError(message): throws Error("redux-api-middleware: " + message) *)
logError(message) == [threw |-> TRUE, error |-> "Error: " \o message]

Returned(v) == [threw |-> FALSE, value |-> v]

(* ------------------------------------------------------------------ *)
(* Configuration                                                      *)
(* ------------------------------------------------------------------ *)
defaults ==
  [actionTypes |-> [start |-> "API_REQUEST_START",
                    end |-> "API_REQUEST_END",
                    failure |-> "API_REQUEST_FAILURE"],
   requestDefaults |-> EmptyMap]

(* createApiMiddleware without the check of its first argument *)
createApiMiddleware_unchecked(request, options) ==
  Returned([request |-> request,
            options |-> options,
            opts |-> Assign(Assign(EmptyMap, defaults), options)])

(* createApiMiddleware(request, options = {}): the closure it returns     *)
(* holds request, the options argument and opts.                          *)
createApiMiddleware(request, options) ==
  IF ~Truthy(request)
  THEN logError("Missing a request object as the first argument")
  ELSE Returned([request |-> request,
                 options |-> options,
                 opts |-> Assign(Assign(EmptyMap, defaults), options)])

(* ------------------------------------------------------------------ *)
(* Action builder                                                     *)
(* ------------------------------------------------------------------ *)
(* apiRequest(url, {type, ...rest} = {}) *)
apiRequest(url, options) ==
  LET type == Get(options, "type")
      rest == Rest(options, {"type"})
  IN IF ~isString(url)
     THEN logError("apiRequest requires a string as the first argument")
     ELSE Returned([API |-> [payload |-> Assign([type |-> type, url |-> url], rest)]])

(* ------------------------------------------------------------------ *)
(* Inputs                                                             *)
(* ------------------------------------------------------------------ *)
RequestArgs == {Undefined, Null, "requestFn"}

ConfigArgs ==
  { EmptyMap,
    [actionTypes |-> [start |-> "START", end |-> "END", failure |-> "FAIL"]],
    [actionTypes |-> [start |-> "START"]],
    [requestDefaults |-> [opt |-> "d", hdr |-> "d"]],
    [actionTypes |-> [end |-> "END"], requestDefaults |-> [hdr |-> "d"]] }

UrlArgs == {"/users", EmptyString, Undefined, Null, "num42", "obj"}

TypeBags == {EmptyMap, [type |-> EmptyString], [type |-> "T"]}
SuccessBags == {EmptyMap, [onSuccess |-> "successFn"], [onSuccess |-> "throwFn"], [onSuccess |-> "notCallable"]}
FailureBags == {EmptyMap, [onFailure |-> "failureFn"], [onFailure |-> "throwFn"], [onFailure |-> "notCallable"]}

(* the free-form request options an action carries: any of the first   *)
(* MaxExtraKeys option names, or a field that is named url             *)
MaxExtraKeys == 2
OptionNames == <<"opt", "hdr", "mode", "body">>
ExtraKeys == {OptionNames[i] : i \in 1..MaxExtraKeys}
ExtraBags == {[k \in K |-> "x"] : K \in SUBSET ExtraKeys} \cup {[url |-> "/other"]}


OptionArgs ==
  { Assign(Assign(Assign(t, s), f), x) :
      t \in TypeBags, s \in SuccessBags, f \in FailureBags, x \in ExtraBags }

PlainActions == {[type |-> "FOO"], [type |-> "BAR", payload |-> "p"]}

NextResults == {"nextA", "nextB"}

(* what the request primitive's promise can settle to *)
ResolvedValues == {"R", Undefined, Null, "wrapOK", "wrapBad", "objNoFn"}
RejectedValues == {"E"}

(* ------------------------------------------------------------------ *)
(* External collaborators                                             *)
(* ------------------------------------------------------------------ *)
(* property lookup res.json on a resolved value *)
Member(res, k) ==
  CASE res \in {Undefined, Null} -> [threw |-> TRUE, error |-> TypeError]
    [] res = "wrapOK" /\ k = "json" -> Returned("jsonResolves")
    [] res = "wrapBad" /\ k = "json" -> Returned("jsonRejects")
    [] res = "objNoFn" /\ k = "json" -> Returned("notCallable")
    [] OTHER -> Returned(Undefined)

(* the caller's continuations: an action creator, or a function that throws *)
Call(fn, arg) ==
  CASE fn = "successFn" -> Returned([type |-> "SUCCESS", payload |-> arg])
    [] fn = "failureFn" -> Returned([type |-> "FAILURE", payload |-> arg])
    [] OTHER -> [threw |-> TRUE, error |-> "CBERR"]

(* the promise res.json() returns settles to *)
JsonOutcome(fn) ==
  IF fn = "jsonResolves"
  THEN [state |-> "fulfilled", value |-> "J"]
  ELSE [state |-> "rejected", value |-> "DE"]

Pending == [state |-> "pending", value |-> Undefined]
Fulfilled(v) == [state |-> "fulfilled", value |-> v]
Rejected(e) == [state |-> "rejected", value |-> e]

(* ------------------------------------------------------------------ *)
(* State                                                              *)
(* ------------------------------------------------------------------ *)
Slots == {1}

NoReturn == [kind |-> "none", promise |-> Pending, value |-> Undefined]

(* one intercepted action: where its chain stands and what it has done *)
FreeReq ==
  [pc |-> "free",
   action |-> EmptyMap,
   log |-> <<>>,       \* actions handed to the store's dispatch
   calls |-> <<>>,     \* invocations of the request primitive
   nexted |-> <<>>,    \* actions handed to next
   nextRet |-> Undefined, \* what next(action) returned
   cbs |-> <<>>,       \* invocations of onSuccess / onFailure
   events |-> <<>>,    \* "dispatch", "request", "next" in the order they happened
   p0 |-> Pending,     \* request(url, requestOptions)
   p1 |-> Pending,     \* .then(res => res.json() or res)
   p2 |-> Pending,     \* .then(onFulfilled, onRejected)
   json |-> Undefined, \* the decode step in flight
   ret |-> NoReturn]   \* what the interceptor returned or threw

NoMiddleware == [status |-> "none", request |-> Undefined, options |-> EmptyMap, opts |-> EmptyMap]

NotBuilt == [status |-> "none", url |-> Undefined, options |-> EmptyMap, action |-> EmptyMap]

Init ==
  /\ mw = NoMiddleware
  /\ built = NotBuilt
  /\ reqs = [r \in Slots |-> FreeReq]
  /\ loading = EmptyMap

(* the README's loadingReducer, the store's state under dispatched actions *)
loadingReducer(state, action) ==
  IF action.type = "API_REQUEST_START"
  THEN Assign(state, [k \in {action.payload} |-> TRUE])
  ELSE IF action.type = "API_REQUEST_END"
  THEN Assign(state, [k \in {action.payload} |-> FALSE])
  ELSE state

RECURSIVE Reduce(_, _)
Reduce(state, actions) ==
  IF actions = <<>> THEN state
  ELSE Reduce(loadingReducer(state, Head(actions)), Tail(actions))

dispatch(q, a) == [q EXCEPT !.log = Append(@, a), !.events = Append(@, "dispatch")]

(* slot r moves on to q; what it dispatched on the way reaches the store *)
Step(r, q) ==
  /\ reqs' = [reqs EXCEPT ![r] = q]
  /\ loading' = Reduce(loading, SubSeq(q.log, Len(reqs[r].log) + 1, Len(q.log)))

(* the payload fields the interceptor destructures *)
PayloadOf(q) == q.action.API.payload
TypeOfReq(q) == Get(PayloadOf(q), "type")
UrlOfReq(q) == Get(PayloadOf(q), "url")
OnSuccessOf(q) == Get(PayloadOf(q), "onSuccess")
OnFailureOf(q) == Get(PayloadOf(q), "onFailure")
RestConfigOf(q) == Rest(PayloadOf(q), {"type", "url", "onSuccess", "onFailure"})

(* Object.assign({}, restConfig, options.requestDefaults): defaults win *)
RequestOptions_defaultsWin(options, restConfig) ==
  LET requestDefaults ==
        IF "requestDefaults" \in DOMAIN options THEN options.requestDefaults ELSE EmptyMap
  IN Assign(Assign(EmptyMap, restConfig), requestDefaults)

(* Object.assign({}, options.requestDefaults, restConfig) *)
RequestOptions(options, restConfig) ==
  LET requestDefaults ==
        IF "requestDefaults" \in DOMAIN options THEN options.requestDefaults ELSE EmptyMap
  IN Assign(Assign(EmptyMap, requestDefaults), restConfig)

StartAction(opts, type) == [type |-> Get(opts.actionTypes, "start"), payload |-> type]
FailureAction(opts, error) == [type |-> Get(opts.actionTypes, "failure"), payload |-> error, error |-> TRUE]
EndAction(opts, type) == [type |-> Get(opts.actionTypes, "end"), payload |-> type]

(* how a call of the request primitive can end *)
RequestBehaviours == {"promise", "throws"}

(* ------------------------------------------------------------------ *)
(* The interceptor: action => ... up to the return of the chain       *)
(* ------------------------------------------------------------------ *)
(* if (!action.API) return next(action), without the return value *)
passThrough_dropsResult(q, action, nextResult) ==
  [q EXCEPT !.pc = "returned",
            !.nexted = Append(@, action),
            !.events = Append(@, "next"),
            !.nextRet = nextResult,
            !.ret = [kind |-> "value", promise |-> Pending, value |-> Undefined]]

(* return next(action) *)
passThrough(q, action, nextResult) ==
  [q EXCEPT !.pc = "returned",
            !.nexted = Append(@, action),
            !.events = Append(@, "next"),
            !.nextRet = nextResult,
            !.ret = [kind |-> "value", promise |-> Pending, value |-> nextResult]]

(* the interceptor calling request before it dispatches the start action *)
apiMiddleware_requestFirst(m, action, nextResult, behaviour) ==
  LET q0 == [FreeReq EXCEPT !.action = action]
  IN IF "API" \notin DOMAIN action
     THEN passThrough(q0, action, nextResult)
     ELSE
       LET type == TypeOfReq(q0)
           url == UrlOfReq(q0)
           requestOptions == RequestOptions(m.options, RestConfigOf(q0))
           q1 == [q0 EXCEPT !.calls = Append(@, [url |-> url, options |-> requestOptions]),
                            !.events = Append(@, "request")]
           q2 == IF Truthy(type) THEN dispatch(q1, StartAction(m.opts, type)) ELSE q1
       IN IF behaviour = "throws"
          THEN [q1 EXCEPT !.pc = "threw",
                          !.ret = [kind |-> "throw", promise |-> Pending, value |-> "ReqThrow"]]
          ELSE [q2 EXCEPT !.pc = "pending",
                          !.ret = [kind |-> "promise", promise |-> Pending, value |-> Undefined]]

(* the call of request wrapped in try/finally: END although request threw *)
apiMiddleware_endsOnThrow(m, action, nextResult, behaviour) ==
  LET q0 == [FreeReq EXCEPT !.action = action]
  IN IF "API" \notin DOMAIN action
     THEN passThrough(q0, action, nextResult)
     ELSE
       LET type == TypeOfReq(q0)
           url == UrlOfReq(q0)
           q1 == IF Truthy(type) THEN dispatch(q0, StartAction(m.opts, type)) ELSE q0
           requestOptions == RequestOptions(m.options, RestConfigOf(q0))
           q2 == [q1 EXCEPT !.calls = Append(@, [url |-> url, options |-> requestOptions]),
                            !.events = Append(@, "request")]
           q3 == IF Truthy(type) THEN dispatch(q2, EndAction(m.opts, type)) ELSE q2
       IN IF behaviour = "throws"
          THEN [q3 EXCEPT !.pc = "threw",
                          !.ret = [kind |-> "throw", promise |-> Pending, value |-> "ReqThrow"]]
          ELSE [q2 EXCEPT !.pc = "pending",
                          !.ret = [kind |-> "promise", promise |-> Pending, value |-> Undefined]]

apiMiddleware(m, action, nextResult, behaviour) ==
  LET q0 == [FreeReq EXCEPT !.action = action]
  IN IF "API" \notin DOMAIN action
     THEN passThrough(q0, action, nextResult)
     ELSE
       LET type == TypeOfReq(q0)
           url == UrlOfReq(q0)
           q1 == IF Truthy(type) THEN dispatch(q0, StartAction(m.opts, type)) ELSE q0
           requestOptions == RequestOptions(m.options, RestConfigOf(q0))
           q2 == [q1 EXCEPT !.calls = Append(@, [url |-> url, options |-> requestOptions]),
                            !.events = Append(@, "request")]
       IN IF ~isFunction(m.request)
          THEN [q1 EXCEPT !.pc = "threw",
                          !.ret = [kind |-> "throw", promise |-> Pending, value |-> TypeError]]
          ELSE IF behaviour = "throws"
          THEN [q2 EXCEPT !.pc = "threw",
                          !.ret = [kind |-> "throw", promise |-> Pending, value |-> "ReqThrow"]]
          ELSE [q2 EXCEPT !.pc = "pending",
                          !.ret = [kind |-> "promise", promise |-> Pending, value |-> Undefined]]

(* .then(res => isFunction(res.json) ? res.json() : res) *)
firstThen(q) ==
  IF q.p0.state = "rejected"
  THEN [q EXCEPT !.pc = "normalized", !.p1 = q.p0]
  ELSE LET res == q.p0.value
           json == Member(res, "json")
       IN IF json.threw
          THEN [q EXCEPT !.pc = "normalized", !.p1 = Rejected(json.error)]
          ELSE IF isFunction(json.value)
          THEN [q EXCEPT !.pc = "decoding", !.json = json.value]
          ELSE [q EXCEPT !.pc = "normalized", !.p1 = Fulfilled(res)]

(* onFulfilled that calls onSuccess and forgets to dispatch its result *)
onFulfilled_noDispatch(m, q, res) ==
  LET onSuccess == OnSuccessOf(q)
      made == Call(onSuccess, res)
      q1 == [q EXCEPT !.cbs = Append(@, [fn |-> "onSuccess", arg |-> res])]
  IN IF isFunction(onSuccess)
     THEN IF made.threw
          THEN [q1 EXCEPT !.p2 = Rejected(made.error)]
          ELSE [q1 EXCEPT !.p2 = Fulfilled(res)]
     ELSE [q EXCEPT !.p2 = Fulfilled(res)]

(* onFulfilled of .then(onFulfilled, onRejected) *)
onFulfilled(m, q, res) ==
  LET onSuccess == OnSuccessOf(q)
      made == Call(onSuccess, res)
      q1 == [q EXCEPT !.cbs = Append(@, [fn |-> "onSuccess", arg |-> res])]
  IN IF isFunction(onSuccess)
     THEN IF made.threw
          THEN [q1 EXCEPT !.p2 = Rejected(made.error)]
          ELSE [dispatch(q1, made.value) EXCEPT !.p2 = Fulfilled(res)]
     ELSE [q EXCEPT !.p2 = Fulfilled(res)]

(* onRejected that dispatches the failure action after onFailure's *)
onRejected_failureLast(m, q, error) ==
  LET type == TypeOfReq(q)
      onFailure == OnFailureOf(q)
      made == Call(onFailure, error)
      q1 == [q EXCEPT !.cbs = Append(@, [fn |-> "onFailure", arg |-> error])]
      q2 == IF isFunction(onFailure) /\ ~made.threw THEN dispatch(q1, made.value)
            ELSE IF isFunction(onFailure) THEN q1 ELSE q
      q3 == IF Truthy(type) THEN dispatch(q2, FailureAction(m.opts, error)) ELSE q2
  IN IF isFunction(onFailure) /\ made.threw
     THEN [q3 EXCEPT !.p2 = Rejected(made.error)]
     ELSE [q3 EXCEPT !.p2 = Fulfilled(Undefined)]

(* onRejected that dispatches the failure action whether or not type is set *)
onRejected_alwaysFailure(m, q, error) ==
  LET onFailure == OnFailureOf(q)
      made == Call(onFailure, error)
      q1 == dispatch(q, FailureAction(m.opts, error))
      q2 == [q1 EXCEPT !.cbs = Append(@, [fn |-> "onFailure", arg |-> error])]
  IN IF isFunction(onFailure)
     THEN IF made.threw
          THEN [q2 EXCEPT !.p2 = Rejected(made.error)]
          ELSE [dispatch(q2, made.value) EXCEPT !.p2 = Fulfilled(Undefined)]
     ELSE [q1 EXCEPT !.p2 = Fulfilled(Undefined)]

(* onRejected that rethrows the error after handling it *)
onRejected_rethrows(m, q, error) ==
  LET type == TypeOfReq(q)
      onFailure == OnFailureOf(q)
      made == Call(onFailure, error)
      q1 == IF Truthy(type) THEN dispatch(q, FailureAction(m.opts, error)) ELSE q
      q2 == [q1 EXCEPT !.cbs = Append(@, [fn |-> "onFailure", arg |-> error])]
  IN IF isFunction(onFailure)
     THEN IF made.threw
          THEN [q2 EXCEPT !.p2 = Rejected(made.error)]
          ELSE [dispatch(q2, made.value) EXCEPT !.p2 = Rejected(error)]
     ELSE [q1 EXCEPT !.p2 = Rejected(error)]

(* onRejected of .then(onFulfilled, onRejected) *)
onRejected(m, q, error) ==
  LET type == TypeOfReq(q)
      onFailure == OnFailureOf(q)
      made == Call(onFailure, error)
      q1 == IF Truthy(type) THEN dispatch(q, FailureAction(m.opts, error)) ELSE q
      q2 == [q1 EXCEPT !.cbs = Append(@, [fn |-> "onFailure", arg |-> error])]
  IN IF isFunction(onFailure)
     THEN IF made.threw
          THEN [q2 EXCEPT !.p2 = Rejected(made.error)]
          ELSE [dispatch(q2, made.value) EXCEPT !.p2 = Fulfilled(Undefined)]
     ELSE [q1 EXCEPT !.p2 = Fulfilled(Undefined)]

(* .then(onFulfilled).catch(onRejected): a throw of onFulfilled reaches onRejected *)
secondThen_thenCatch(m, q) ==
  LET q1 == IF q.p1.state = "fulfilled"
            THEN onFulfilled(m, q, q.p1.value)
            ELSE onRejected(m, q, q.p1.value)
      q2 == IF q.p1.state = "fulfilled" /\ q1.p2.state = "rejected"
            THEN onRejected(m, q1, q1.p2.value)
            ELSE q1
  IN [q2 EXCEPT !.pc = "branched"]

secondThen(m, q) ==
  LET q1 == IF q.p1.state = "fulfilled"
            THEN onFulfilled(m, q, q.p1.value)
            ELSE onRejected(m, q, q.p1.value)
  IN [q1 EXCEPT !.pc = "branched"]

(* .then(() => ...) in place of .finally: no end action after a rejection *)
finally_onlyFulfilled(m, q) ==
  LET type == TypeOfReq(q)
      q1 == IF Truthy(type) /\ q.p2.state = "fulfilled"
            THEN dispatch(q, EndAction(m.opts, type)) ELSE q
  IN [q1 EXCEPT !.pc = "settled", !.ret.promise = q.p2]

(* Object.assign(options.requestDefaults, restConfig): the defaults are the target *)
closureAfter_assignsInPlace(m, action) ==
  IF "API" \in DOMAIN action /\ "requestDefaults" \in DOMAIN m.options
  THEN LET merged == Assign(m.options.requestDefaults,
                            Rest(action.API.payload, {"type", "url", "onSuccess", "onFailure"}))
       IN [m EXCEPT !.options.requestDefaults = merged, !.opts.requestDefaults = merged]
  ELSE m

(* what the closure holds (request, options, opts) once the interceptor has *)
(* run on action: the one Object.assign has a new object as its target and *)
(* nothing else writes, so what it held before                             *)
closureAfter(m, action) == m

(* .then(end, end) in place of .finally: the settlement is not passed on *)
finally_swallows(m, q) ==
  LET type == TypeOfReq(q)
      q1 == IF Truthy(type) THEN dispatch(q, EndAction(m.opts, type)) ELSE q
  IN [q1 EXCEPT !.pc = "settled", !.ret.promise = Fulfilled(Undefined)]

(* .finally(() => type && dispatch(end)): settles as the branch did *)
finally(m, q) ==
  LET type == TypeOfReq(q)
      q1 == IF Truthy(type) THEN dispatch(q, EndAction(m.opts, type)) ELSE q
  IN [q1 EXCEPT !.pc = "settled", !.ret.promise = q.p2]

(* ------------------------------------------------------------------ *)
(* Actions                                                            *)
(* ------------------------------------------------------------------ *)
CreateApiMiddleware ==
  /\ mw.status = "none"
  /\ \E request \in RequestArgs, options \in ConfigArgs :
       LET made == createApiMiddleware(request, options)
       IN mw' = IF made.threw
                THEN [status |-> "threw", request |-> request, options |-> options, opts |-> EmptyMap]
                ELSE [status |-> "created", request |-> made.value.request,
                      options |-> made.value.options, opts |-> made.value.opts]
  /\ UNCHANGED <<built, reqs, loading>>

ApiRequest ==
  /\ built.status = "none"
  /\ \A r \in Slots : reqs[r].pc = "free"
  /\ \E url \in UrlArgs, options \in OptionArgs :
       LET made == apiRequest(url, options)
       IN built' = IF made.threw
                   THEN [status |-> "threw", url |-> url, options |-> options, action |-> EmptyMap]
                   ELSE [status |-> "ok", url |-> url, options |-> options, action |-> made.value]
  /\ UNCHANGED <<mw, reqs, loading>>

(* the caller catches what apiRequest threw *)
Catch ==
  /\ built.status = "threw"
  /\ built' = NotBuilt
  /\ UNCHANGED <<mw, reqs, loading>>

(* store.dispatch(action) reaching the interceptor *)
Intercept(r) ==
  /\ mw.status = "created"
  /\ reqs[r].pc = "free"
  /\ \/ /\ built.status = "ok"
        /\ \E behaviour \in RequestBehaviours :
             Step(r, apiMiddleware(mw, built.action, Undefined, behaviour))
        /\ mw' = closureAfter(mw, built.action)
        /\ built' = NotBuilt
     \/ /\ \E action \in PlainActions, nextResult \in NextResults :
             /\ Step(r, apiMiddleware(mw, action, nextResult, "promise"))
             /\ mw' = closureAfter(mw, action)
        /\ UNCHANGED built

(* the request primitive's promise settles *)
RequestSettles(r) ==
  /\ reqs[r].pc = "pending"
  /\ \E p \in {Fulfilled(v) : v \in ResolvedValues} \cup {Rejected(e) : e \in RejectedValues} :
       reqs' = [reqs EXCEPT ![r].pc = "requested", ![r].p0 = p]
  /\ UNCHANGED <<mw, built, loading>>

FirstThen(r) ==
  /\ reqs[r].pc = "requested"
  /\ Step(r, firstThen(reqs[r]))
  /\ UNCHANGED <<mw, built>>

(* the promise of res.json() settles *)
DecodeSettles(r) ==
  /\ reqs[r].pc = "decoding"
  /\ reqs' = [reqs EXCEPT ![r].pc = "normalized", ![r].p1 = JsonOutcome(reqs[r].json)]
  /\ UNCHANGED <<mw, built, loading>>

SecondThen(r) ==
  /\ reqs[r].pc = "normalized"
  /\ Step(r, secondThen(mw, reqs[r]))
  /\ UNCHANGED <<mw, built>>

Finally(r) ==
  /\ reqs[r].pc = "branched"
  /\ Step(r, finally(mw, reqs[r]))
  /\ UNCHANGED <<mw, built>>

(* the caller has seen the outcome of its dispatch call *)
Await(r) ==
  /\ reqs[r].pc \in {"returned", "threw", "settled"}
  /\ reqs' = [reqs EXCEPT ![r] = FreeReq]
  /\ UNCHANGED <<mw, built, loading>>

Next ==
  \/ CreateApiMiddleware
  \/ ApiRequest
  \/ Catch
  \/ \E r \in Slots :
       \/ Intercept(r)
       \/ RequestSettles(r)
       \/ FirstThen(r)
       \/ DecodeSettles(r)
       \/ SecondThen(r)
       \/ Finally(r)
       \/ Await(r)

Spec == Init /\ [][Next]_vars

(* The handlers of a settled promise run (the microtask queue is        *)
(* drained), and the promise of res.json() settles as the request's     *)
(* does.                                                                *)
SpecFair ==
  /\ Spec
  /\ \A r \in Slots :
       /\ WF_vars(FirstThen(r))
       /\ WF_vars(DecodeSettles(r))
       /\ WF_vars(SecondThen(r))
       /\ WF_vars(Finally(r))

(* ------------------------------------------------------------------ *)
(* Several dispatches in flight at once                                *)
(* ------------------------------------------------------------------ *)
MaxInFlight == 2

(* one slot per store.dispatch call: each call of the interceptor has   *)
(* its own closure over action, type and the promise chain              *)
ConcSlots == 1..MaxInFlight

(* the tagged actions dispatched concurrently, all with the type "T" *)
ConcActions ==
  {apiRequest("/users", o).value :
     o \in {[type |-> "T"],
            [type |-> "T", onSuccess |-> "successFn", onFailure |-> "failureFn"]}}

InitConc ==
  /\ mw = NoMiddleware
  /\ built = NotBuilt
  /\ reqs = [r \in ConcSlots |-> FreeReq]
  /\ loading = EmptyMap

(* a dispatch joining a request of the same type that is still in flight *)
Dispatch_joinsInFlight(r) ==
  /\ mw.status = "created"
  /\ reqs[r].pc = "free"
  /\ \E action \in ConcActions :
       LET q == apiMiddleware(mw, action, Undefined, "promise")
           busy == \E s \in ConcSlots :
                     /\ reqs[s].pc \notin {"free", "settled"}
                     /\ TypeOfReq(reqs[s]) = TypeOfReq(q)
       IN /\ Step(r, IF busy
                     THEN [FreeReq EXCEPT !.action = action, !.pc = "settled", !.ret = q.ret]
                     ELSE q)
          /\ mw' = closureAfter(mw, action)
  /\ UNCHANGED built

(* store.dispatch(action) of a tagged action, others being in flight or not *)
Dispatch(r) ==
  /\ mw.status = "created"
  /\ reqs[r].pc = "free"
  /\ \E action \in ConcActions :
       /\ Step(r, apiMiddleware(mw, action, Undefined, "promise"))
       /\ mw' = closureAfter(mw, action)
  /\ UNCHANGED built

NextConc ==
  \/ CreateApiMiddleware
  \/ \E r \in ConcSlots :
       \/ Dispatch(r)
       \/ RequestSettles(r)
       \/ FirstThen(r)
       \/ DecodeSettles(r)
       \/ SecondThen(r)
       \/ Finally(r)

SpecConc == InitConc /\ [][NextConc]_vars

(* ------------------------------------------------------------------ *)
(* Properties                                                         *)
(* ------------------------------------------------------------------ *)
Tagged(q) == q.pc # "free" /\ "API" \in DOMAIN q.action

(* the label the instance was configured with: the actionTypes object   *)
(* of the options argument when there is one, the defaults' otherwise   *)
ConfigLabel(k) ==
  IF "actionTypes" \in DOMAIN mw.options
  THEN Get(mw.options.actionTypes, k)
  ELSE defaults.actionTypes[k]

(* the action a continuation contributes: the one it returns, if it is  *)
(* callable and returns                                                 *)
Continued(fn, arg) ==
  IF isFunction(fn) /\ ~Call(fn, arg).threw THEN <<Call(fn, arg).value>> ELSE <<>>

LifecycleLabels == {ConfigLabel("start"), ConfigLabel("end"), ConfigLabel("failure")}

(* C1: a tagged action with a type (truthy, as the interceptor tests it) *)
(* whose request primitive rejects has dispatched, once its chain has    *)
(* settled, exactly START, FAILURE carrying the rejection, the action    *)
(* onFailure returned if onFailure is callable, END, in that order.      *)
C1_FailureSequence ==
  \A r \in Slots :
    LET q == reqs[r]
    IN (Tagged(q) /\ q.pc = "settled" /\ Truthy(TypeOfReq(q)) /\ q.p0.state = "rejected")
       => q.log = <<[type |-> ConfigLabel("start"), payload |-> TypeOfReq(q)],
                    [type |-> ConfigLabel("failure"), payload |-> q.p0.value, error |-> TRUE]>>
                  \o Continued(OnFailureOf(q), q.p0.value)
                  \o <<[type |-> ConfigLabel("end"), payload |-> TypeOfReq(q)]>>

C1_Witness ==
  \E r \in Slots :
    LET q == reqs[r]
    IN /\ Tagged(q) /\ q.pc = "settled" /\ Truthy(TypeOfReq(q))
       /\ q.p0.state = "rejected"
       /\ OnFailureOf(q) = "failureFn"
       /\ Len(q.log) = 4

(* C2 as stated: a tagged action with a type whose request primitive    *)
(* resolves (here: with a value other than null or undefined) has       *)
(* dispatched exactly START, the action onSuccess returned if callable, *)
(* END; no FAILURE, and onFailure is not invoked.                       *)
C2_AsStated ==
  \A r \in Slots :
    LET q == reqs[r]
    IN (/\ Tagged(q) /\ q.pc = "settled" /\ Truthy(TypeOfReq(q))
        /\ q.p0.state = "fulfilled" /\ q.p0.value \notin {Undefined, Null})
       => /\ q.log = <<[type |-> ConfigLabel("start"), payload |-> TypeOfReq(q)]>>
                     \o Continued(OnSuccessOf(q), q.p1.value)
                     \o <<[type |-> ConfigLabel("end"), payload |-> TypeOfReq(q)]>>
          /\ \A i \in 1..Len(q.cbs) : q.cbs[i].fn # "onFailure"

(* C2, amended: a tagged action with a type whose normalized response   *)
(* is obtained (the primitive resolves and the json step, when there is *)
(* one, resolves) has dispatched exactly START, the action onSuccess    *)
(* returned if callable, END; no FAILURE, onFailure is not invoked.     *)
C2_SuccessSequence ==
  \A r \in Slots :
    LET q == reqs[r]
    IN (Tagged(q) /\ q.pc = "settled" /\ Truthy(TypeOfReq(q)) /\ q.p1.state = "fulfilled")
       => /\ q.log = <<[type |-> ConfigLabel("start"), payload |-> TypeOfReq(q)]>>
                     \o Continued(OnSuccessOf(q), q.p1.value)
                     \o <<[type |-> ConfigLabel("end"), payload |-> TypeOfReq(q)]>>
          /\ \A i \in 1..Len(q.cbs) : q.cbs[i].fn # "onFailure"

C2_Witness ==
  \E r \in Slots :
    LET q == reqs[r]
    IN /\ Tagged(q) /\ q.pc = "settled" /\ Truthy(TypeOfReq(q))
       /\ q.p1 = Fulfilled("R")
       /\ OnSuccessOf(q) = "successFn"
       /\ Len(q.log) = 3

(* C3: an action without the API envelope is handed to next unchanged,  *)
(* the interceptor returns what next returned, nothing is dispatched    *)
(* and the request primitive is not invoked.                            *)
C3_PassThrough ==
  \A r \in Slots :
    LET q == reqs[r]
    IN (q.pc # "free" /\ "API" \notin DOMAIN q.action)
       => /\ q.pc = "returned"
          /\ q.nexted = <<q.action>>
          /\ q.ret.kind = "value" /\ q.ret.value = q.nextRet
          /\ q.log = <<>>
          /\ q.calls = <<>>

C3_Witness ==
  \E r \in Slots :
    /\ reqs[r].pc = "returned"
    /\ reqs[r].action = [type |-> "FOO"]
    /\ reqs[r].ret.value = "nextB"

IsLifecycle(a) ==
  \/ a = [type |-> ConfigLabel("start"), payload |-> a.payload]
  \/ a = [type |-> ConfigLabel("end"), payload |-> a.payload]
  \/ a = [type |-> ConfigLabel("failure"), payload |-> a.payload, error |-> TRUE]

(* C4: a tagged action without a type (falsy, as the interceptor tests  *)
(* it) never has a lifecycle action dispatched; once settled its        *)
(* dispatches are exactly what the continuation matching the outcome    *)
(* returned: nothing when that continuation is missing.                 *)
C4_NoTypeNoLifecycle ==
  \A r \in Slots :
    LET q == reqs[r]
    IN (Tagged(q) /\ ~Truthy(TypeOfReq(q)))
       => /\ \A i \in 1..Len(q.log) : ~IsLifecycle(q.log[i])
          /\ q.pc = "settled" =>
               q.log = IF q.p1.state = "fulfilled"
                       THEN Continued(OnSuccessOf(q), q.p1.value)
                       ELSE Continued(OnFailureOf(q), q.p1.value)

C4_Witness ==
  \E r \in Slots :
    LET q == reqs[r]
    IN /\ Tagged(q) /\ q.pc = "settled" /\ TypeOfReq(q) = Undefined
       /\ q.p0.state = "rejected"
       /\ q.log = <<[type |-> "FAILURE", payload |-> "E"]>>

ExposesJson(res) == res \in {"wrapOK", "wrapBad"}

(* C5 as stated, for a decode step that resolves and an onSuccess that  *)
(* returns: the normalized payload is the decode step's result when the *)
(* resolved value exposes a callable json, the resolved value itself    *)
(* otherwise (null and undefined included); it is what onSuccess is     *)
(* called with and what the interceptor's promise fulfils with.         *)
C5_AsStated ==
  \A r \in Slots :
    LET q == reqs[r]
        res == q.p0.value
        payload == IF ExposesJson(res) THEN "J" ELSE res
    IN (/\ Tagged(q) /\ q.pc = "settled" /\ q.p0.state = "fulfilled"
        /\ res # "wrapBad"
        /\ OnSuccessOf(q) # "throwFn")
       => /\ q.p1 = Fulfilled(payload)
          /\ isFunction(OnSuccessOf(q)) => q.cbs = <<[fn |-> "onSuccess", arg |-> payload]>>
          /\ q.ret.promise = Fulfilled(payload)

(* C6: when the request fails (the primitive rejects or the decode step *)
(* rejects) and onFailure is not callable or returns, the promise the   *)
(* interceptor returned is never rejected and settles fulfilled with    *)
(* undefined.                                                           *)
C6_HandledFailureFulfils ==
  \A r \in Slots :
    LET q == reqs[r]
        failed == \/ q.p0.state = "rejected"
                  \/ q.json # Undefined /\ q.p1.state = "rejected"
    IN (/\ Tagged(q) /\ failed
        /\ ~isFunction(OnFailureOf(q)) \/ ~Call(OnFailureOf(q), q.p1.value).threw)
       => /\ q.ret.kind = "promise"
          /\ q.ret.promise.state # "rejected"
          /\ q.pc = "branched" => q.p2 = Fulfilled(Undefined)
          /\ q.pc = "settled" => q.ret.promise = Fulfilled(Undefined)

C6_Witness ==
  \E r \in Slots :
    LET q == reqs[r]
    IN /\ Tagged(q) /\ q.pc = "settled"
       /\ q.json = "jsonRejects" /\ q.p1 = Rejected("DE")
       /\ OnFailureOf(q) = "failureFn"
       /\ q.ret.promise = Fulfilled(Undefined)

(* the label a configuration asks for when each of start, end, failure  *)
(* falls back to its default on its own                                 *)
IndividualLabel(k) ==
  IF "actionTypes" \in DOMAIN mw.options /\ k \in DOMAIN mw.options.actionTypes
  THEN mw.options.actionTypes[k]
  ELSE defaults.actionTypes[k]

(* C7 as stated: the lifecycle actions of a request carry, each on its  *)
(* own, the label the configuration supplies or else the default label. *)
C7_AsStated ==
  \A r \in Slots :
    LET q == reqs[r]
    IN (/\ Tagged(q) /\ q.pc = "settled" /\ Truthy(TypeOfReq(q))
        /\ q.p0.state = "rejected" \/ q.p1.state = "fulfilled")
       => /\ q.log[1].type = IndividualLabel("start")
          /\ q.log[Len(q.log)].type = IndividualLabel("end")
          /\ q.p1.state = "rejected" => q.log[2].type = IndividualLabel("failure")

(* C8: the request primitive is invoked exactly once per tagged action, *)
(* with the action's url and with options holding every key of the      *)
(* configured requestDefaults and of the action's extra fields, the     *)
(* extra field's value on a collision; type, url, onSuccess, onFailure  *)
(* of the action are not among them.                                    *)
C8_MergedOptions ==
  \A r \in Slots :
    LET q == reqs[r]
        payload == q.action.API.payload
        control == {"type", "url", "onSuccess", "onFailure"}
        extraKeys == (DOMAIN payload) \ control
        rd == IF "requestDefaults" \in DOMAIN mw.options
              THEN mw.options.requestDefaults ELSE EmptyMap
    IN Tagged(q)
       => /\ Len(q.calls) = 1
          /\ q.calls[1].url = payload.url
          /\ DOMAIN q.calls[1].options = (DOMAIN rd) \cup extraKeys
          /\ \A k \in DOMAIN q.calls[1].options :
               q.calls[1].options[k] = IF k \in extraKeys THEN payload[k] ELSE rd[k]
          /\ (control \cap DOMAIN q.calls[1].options) \subseteq DOMAIN rd
          /\ (DOMAIN rd = {}) => DOMAIN q.calls[1].options = extraKeys

C8_Witness ==
  \E r \in Slots :
    LET q == reqs[r]
    IN /\ Tagged(q)
       /\ Get(PayloadOf(q), "type") = "T"
       /\ Get(PayloadOf(q), "onSuccess") = "successFn"
       /\ q.calls = <<[url |-> "/users", options |-> [opt |-> "x", hdr |-> "d"]]>>

(* C9: created without a request primitive, whatever the configuration, *)
(* the factory throws: no instance exists, nothing is intercepted and   *)
(* nothing is dispatched.                                               *)
C9_MissingRequestThrows ==
  (mw.status # "none" /\ ~Truthy(mw.request))
    => /\ mw.status = "threw"
       /\ \A r \in Slots : reqs[r].pc = "free" /\ reqs[r].log = <<>>

C9_Witness ==
  /\ mw.status = "threw"
  /\ mw.request = Undefined
  /\ mw.options = [actionTypes |-> [start |-> "START"]]

StringUrls == {"/users", EmptyString}

(* C10: every call of apiRequest with a url that is not a string throws *)
(* and returns no action, whatever the options; with a string it        *)
(* returns an action with the API envelope; no call dispatches.         *)
C10_NonStringUrlThrows ==
  [][ (built.status = "none" /\ built'.status # "none")
        => /\ built'.status = "threw" <=> built'.url \notin StringUrls
           /\ built'.status = "threw" => built'.action = EmptyMap
           /\ built'.status = "ok" => DOMAIN built'.action = {"API"}
           /\ reqs' = reqs ]_vars

C10_Witness ==
  /\ built.status = "threw"
  /\ built.url = "obj"
  /\ built.options = [type |-> "T", onSuccess |-> "successFn", opt |-> "x"]

(* C11 as stated: every action apiRequest returns has a payload url     *)
(* that is a non-empty string and is the url argument, whatever the     *)
(* options bag (one with a url key included).                           *)
C11_AsStated ==
  built.status = "ok"
    => /\ isString(built.action.API.payload.url)
       /\ built.action.API.payload.url # EmptyString
       /\ built.action.API.payload.url = built.url

StartOf(q) == [type |-> ConfigLabel("start"), payload |-> TypeOfReq(q)]
EndOf(q) == [type |-> ConfigLabel("end"), payload |-> TypeOfReq(q)]
Count(seq, a) == Cardinality({i \in 1..Len(seq) : seq[i] = a})

EndOnce(q) ==
  /\ q.pc = "settled"
  /\ Count(q.log, EndOf(q)) = 1
  /\ q.log[Len(q.log)] = EndOf(q)
  /\ q.log[1] = StartOf(q)

Throws(fn, arg) == isFunction(fn) /\ Call(fn, arg).threw

Lifecycle(q) == IF Truthy(TypeOfReq(q)) THEN <<StartOf(q), EndOf(q)>> ELSE <<>>

(* C13 as stated: when the request resolves and onSuccess throws, the   *)
(* FAILURE action is dispatched (with a type) and onFailure, if         *)
(* callable, is invoked with the thrown error.                          *)
C13_AsStated ==
  \A r \in Slots :
    LET q == reqs[r]
        thrown == Call(OnSuccessOf(q), q.p1.value).error
    IN (/\ Tagged(q) /\ q.pc = "settled" /\ q.p1.state = "fulfilled"
        /\ Throws(OnSuccessOf(q), q.p1.value))
       => /\ Truthy(TypeOfReq(q)) =>
               \E i \in 1..Len(q.log) :
                 q.log[i] = [type |-> ConfigLabel("failure"), payload |-> thrown, error |-> TRUE]
          /\ isFunction(OnFailureOf(q)) =>
               \E i \in 1..Len(q.cbs) : q.cbs[i] = [fn |-> "onFailure", arg |-> thrown]

(* C13, amended: when the request resolves and onSuccess throws, the    *)
(* failure branch does not run: no FAILURE action is dispatched,        *)
(* onFailure is not invoked, and the request's dispatches are START and *)
(* END alone (with a type) or none.                                     *)
C13_ThrowingOnSuccessSkipsFailure ==
  \A r \in Slots :
    LET q == reqs[r]
    IN (/\ Tagged(q) /\ q.pc = "settled" /\ q.p1.state = "fulfilled"
        /\ Throws(OnSuccessOf(q), q.p1.value))
       => /\ \A i \in 1..Len(q.log) : "error" \notin DOMAIN q.log[i]
          /\ q.cbs = <<[fn |-> "onSuccess", arg |-> q.p1.value]>>
          /\ q.log = Lifecycle(q)

C13_Witness ==
  \E r \in Slots :
    LET q == reqs[r]
    IN /\ Tagged(q) /\ q.pc = "settled" /\ TypeOfReq(q) = "T"
       /\ q.p1 = Fulfilled("J")
       /\ OnSuccessOf(q) = "throwFn" /\ OnFailureOf(q) = "failureFn"
       /\ Len(q.cbs) = 1

(* the continuation the outcome selects throws *)
ContinuationThrows(q) ==
  \/ q.p1.state = "fulfilled" /\ Throws(OnSuccessOf(q), q.p1.value)
  \/ q.p1.state = "rejected" /\ Throws(OnFailureOf(q), q.p1.value)

(* C14: when onSuccess or onFailure throws, the promise the interceptor *)
(* returned is rejected with the thrown error and is never fulfilled,   *)
(* and END is still dispatched when there is a type.                    *)
C14_ContinuationErrorRejects ==
  \A r \in Slots :
    LET q == reqs[r]
        fn == IF q.p1.state = "fulfilled" THEN OnSuccessOf(q) ELSE OnFailureOf(q)
    IN (Tagged(q) /\ q.pc \in {"branched", "settled"} /\ ContinuationThrows(q))
       => /\ q.p2 = Rejected(Call(fn, q.p1.value).error)
          /\ q.ret.promise.state # "fulfilled"
          /\ q.pc = "settled" =>
               /\ q.ret.promise = Rejected(Call(fn, q.p1.value).error)
               /\ Truthy(TypeOfReq(q)) => q.log[Len(q.log)] = EndOf(q)

C14_Witness ==
  \E r \in Slots :
    LET q == reqs[r]
    IN /\ Tagged(q) /\ q.pc = "settled" /\ TypeOfReq(q) = "T"
       /\ q.p0 = Rejected("E")
       /\ OnFailureOf(q) = "throwFn"
       /\ q.ret.promise = Rejected("CBERR")
       /\ Len(q.log) = 3

DecodeRejected(q) == q.json # Undefined /\ q.p1.state = "rejected"

(* what a rejection with error is handled into, up to the promise *)
HandledAsFailure(q, error) ==
  /\ \A i \in 1..Len(q.cbs) : q.cbs[i].fn # "onSuccess"
  /\ q.cbs = IF isFunction(OnFailureOf(q)) THEN <<[fn |-> "onFailure", arg |-> error]>> ELSE <<>>
  /\ q.log = (IF Truthy(TypeOfReq(q))
              THEN <<StartOf(q), [type |-> ConfigLabel("failure"), payload |-> error, error |-> TRUE]>>
              ELSE <<>>)
             \o Continued(OnFailureOf(q), error)
             \o (IF Truthy(TypeOfReq(q)) THEN <<EndOf(q)>> ELSE <<>>)

(* C15 as stated: a rejection of the decode step is handled like one of *)
(* the request primitive (no onSuccess, FAILURE with the decode error,  *)
(* onFailure with the decode error, END) and the interceptor's promise  *)
(* is fulfilled, not rejected.                                          *)
C15_AsStated ==
  \A r \in Slots :
    LET q == reqs[r]
    IN (Tagged(q) /\ q.pc = "settled" /\ DecodeRejected(q))
       => /\ HandledAsFailure(q, q.p1.value)
          /\ q.ret.promise.state = "fulfilled"

(* C15, amended: as stated, except that the interceptor's promise is    *)
(* fulfilled (with undefined) unless onFailure itself throws; then it   *)
(* is rejected with what onFailure threw, never with the decode error.  *)
C15_DecodeRejectionHandled ==
  \A r \in Slots :
    LET q == reqs[r]
    IN (Tagged(q) /\ q.pc = "settled" /\ DecodeRejected(q))
       => /\ q.p1 = Rejected("DE")
          /\ HandledAsFailure(q, "DE")
          /\ q.ret.promise = IF Throws(OnFailureOf(q), "DE")
                             THEN Rejected(Call(OnFailureOf(q), "DE").error)
                             ELSE Fulfilled(Undefined)

C15_Witness ==
  \E r \in Slots :
    LET q == reqs[r]
    IN /\ Tagged(q) /\ q.pc = "settled" /\ TypeOfReq(q) = "T"
       /\ q.p0 = Fulfilled("wrapBad") /\ q.p1 = Rejected("DE")
       /\ OnSuccessOf(q) = "successFn" /\ OnFailureOf(q) = "failureFn"
       /\ Len(q.log) = 4
       /\ q.ret.promise = Fulfilled(Undefined)

(* C16: for a tagged action with a type, START is dispatched before the *)
(* request primitive is invoked, and both have happened by the time the *)
(* interceptor returns (or throws).                                     *)
C16_StartBeforeRequest ==
  \A r \in Slots :
    LET q == reqs[r]
    IN (Tagged(q) /\ Truthy(TypeOfReq(q)))
       => /\ q.ret.kind \in {"promise", "throw"}
          /\ Len(q.events) >= 2
          /\ q.events[1] = "dispatch" /\ q.events[2] = "request"
          /\ q.log[1] = StartOf(q)
          /\ Len(q.calls) = 1
          /\ \A i \in 3..Len(q.events) : q.events[i] # "request"

C16_Witness ==
  \E r \in Slots :
    LET q == reqs[r]
    IN /\ Tagged(q) /\ q.pc = "pending" /\ TypeOfReq(q) = "T"
       /\ q.events = <<"dispatch", "request">>
       /\ q.ret.kind = "promise" /\ q.ret.promise = Pending

(* C18: once created, the middleware's configuration (request, the      *)
(* options it was given, the merged opts with the three labels and the  *)
(* requestDefaults) is changed by no step, whatever is intercepted; and *)
(* every request entering the interceptor gets options made of that     *)
(* configuration's requestDefaults and its own extra fields only, and a *)
(* START with the configured label, whatever was handled before.        *)
C18_ConfigNeverMutated ==
  [][mw.status = "created"
       => /\ mw' = mw
          /\ \A r \in Slots :
               LET q == reqs'[r]
                   given == q.calls[1].options
                   requestDefaults ==
                     IF "requestDefaults" \in DOMAIN mw.options
                     THEN mw.options.requestDefaults ELSE EmptyMap
               IN (reqs[r].pc = "free" /\ Tagged(q))
                  => /\ \A k \in DOMAIN given :
                          given[k] = IF k \in DOMAIN RestConfigOf(q)
                                     THEN RestConfigOf(q)[k]
                                     ELSE requestDefaults[k]
                     /\ \A k \in DOMAIN RestConfigOf(q) : k \in DOMAIN given
                     /\ \A k \in DOMAIN requestDefaults : k \in DOMAIN given
                     /\ Truthy(TypeOfReq(q)) =>
                          q.log[1].type = Get(mw'.opts.actionTypes, "start")]_vars

C18_Witness ==
  \E r \in Slots :
    LET q == reqs[r]
    IN /\ Tagged(q) /\ q.pc = "pending"
       /\ loading = [k \in {"T"} |-> FALSE]
       /\ mw.options = [requestDefaults |-> [opt |-> "d", hdr |-> "d"]]
       /\ mw.opts.requestDefaults = [opt |-> "d", hdr |-> "d"]
       /\ RestConfigOf(q) = [opt |-> "x"]
       /\ q.calls[1].options = [opt |-> "x", hdr |-> "d"]

(* C19: for every tagged action and outcome, each of onSuccess and      *)
(* onFailure is invoked at most once and never both: onSuccess only on  *)
(* a fulfilled outcome, with the payload, onFailure only on a rejected  *)
(* one, with the error (never with what onSuccess threw); at most one   *)
(* action a continuation produced is dispatched.                        *)
C19_ContinuationsExclusive ==
  \A r \in Slots :
    LET q == reqs[r]
        produced == {i \in 1..Len(q.log) : ~IsLifecycle(q.log[i])}
    IN Tagged(q)
       => /\ Len(q.cbs) <= 1
          /\ \A i \in 1..Len(q.cbs) :
               /\ q.cbs[i].fn = "onSuccess" =>
                    q.p1.state = "fulfilled" /\ q.cbs[i].arg = q.p1.value
               /\ q.cbs[i].fn = "onFailure" =>
                    q.p1.state = "rejected" /\ q.cbs[i].arg = q.p1.value
          /\ Cardinality(produced) <= Len(q.cbs)
          /\ q.pc \in {"pending", "requested", "decoding", "normalized", "threw"} => q.cbs = <<>>

C19_Witness ==
  \E r \in Slots :
    LET q == reqs[r]
    IN /\ Tagged(q) /\ q.pc = "settled"
       /\ q.p1.state = "fulfilled"
       /\ OnSuccessOf(q) = "throwFn" /\ OnFailureOf(q) = "failureFn"
       /\ q.cbs = <<[fn |-> "onSuccess", arg |-> q.p1.value]>>
       /\ q.ret.promise = Rejected("CBERR")

(* C20: when the request primitive throws synchronously, the interceptor *)
(* throws that exception to its caller; START has been dispatched (with *)
(* a type) and nothing else: no FAILURE, no END, no continuation, then   *)
(* or later, so the START stays without an END.                          *)
C20_SyncThrowLeavesStartOpen ==
  [][\A r \in Slots :
       LET q == reqs'[r]
       IN /\ q.pc = "threw"
               => /\ Tagged(q)
                  /\ q.ret = [kind |-> "throw", promise |-> Pending, value |-> "ReqThrow"]
                  /\ q.log = IF Truthy(TypeOfReq(q)) THEN <<StartOf(q)>> ELSE <<>>
                  /\ q.events = IF Truthy(TypeOfReq(q))
                                THEN <<"dispatch", "request">> ELSE <<"request">>
                  /\ q.cbs = <<>>
                  /\ q.p0 = Pending /\ q.p1 = Pending /\ q.p2 = Pending
                  /\ (Truthy(TypeOfReq(q)) /\ ConfigLabel("start") = "API_REQUEST_START")
                       => loading'[TypeOfReq(q)] = TRUE
          /\ reqs[r].pc = "threw" => q \in {reqs[r], FreeReq}
          /\ \A i \in 1..Len(q.log) : q.log[i].payload # "ReqThrow"]_vars

C20_Witness ==
  \E r \in Slots :
    LET q == reqs[r]
    IN /\ Tagged(q) /\ q.pc = "threw" /\ TypeOfReq(q) = "T"
       /\ OnFailureOf(q) = "failureFn"
       /\ q.log = <<[type |-> "API_REQUEST_START", payload |-> "T"]>>
       /\ q.ret.kind = "throw"
       /\ loading["T"] = TRUE

InUse == {r \in ConcSlots : reqs[r].pc # "free"}
Ended == {r \in ConcSlots : reqs[r].pc = "settled"}

(* C17: N tagged actions of type T dispatched while others are in       *)
(* flight make N calls of the request primitive, N START(T) and, as     *)
(* they settle, N END(T): each dispatched action has its own call, its  *)
(* own START and its own END; the README reducer's loading[T] is true   *)
(* while none of them has ended and false once all of them have.        *)
C17_NoDeduplication ==
  /\ \A r \in InUse :
       LET q == reqs[r]
       IN /\ Len(q.calls) = 1
          /\ q.calls[1].url = "/users"
          /\ Count(q.log, StartOf(q)) = 1 /\ q.log[1] = StartOf(q)
          /\ Count(q.log, EndOf(q)) = IF r \in Ended THEN 1 ELSE 0
  /\ (InUse # {} /\ ConfigLabel("start") = "API_REQUEST_START" /\ ConfigLabel("end") = "API_REQUEST_END")
       => /\ "T" \in DOMAIN loading
          /\ Ended = {} => loading["T"] = TRUE
          /\ Ended = InUse => loading["T"] = FALSE

C17_Witness ==
  \E r, s \in ConcSlots :
    /\ reqs[r].pc = "settled"
    /\ reqs[r].log[Len(reqs[r].log)] = [type |-> "API_REQUEST_END", payload |-> "T"]
    /\ loading["T"] = FALSE
    /\ reqs[s].pc \in {"pending", "requested", "decoding", "normalized", "branched"}
    /\ TypeOfReq(reqs[s]) = "T"
    /\ reqs[s].log = <<[type |-> "API_REQUEST_START", payload |-> "T"]>>
    /\ Len(reqs[s].calls) = 1

====
